---- MODULE Spec2Model ----
(***************************************************************************)
(* Model of Pdf2XeroCsv (src/main.py): the InvoiceExtractorApp window, its *)
(* worker thread process_files, and the helpers extract_text_from_pdf,     *)
(* query_llm, flatten_json_to_xero_rows and save_csv.                      *)
(*                                                                         *)
(* Five specifications share the variables:                                *)
(*   Spec         the application with one worker thread slot and the full *)
(*                set of documents and model responses;                    *)
(*   SpecUI       the application with MaxThreads worker thread slots and  *)
(*                a reduced set of documents and responses;                *)
(*   SpecFlatten  flatten_json_to_xero_rows applied to bounded records;    *)
(*   SpecRepair   the response repair of query_llm applied to payloads;    *)
(*   SpecReader   extract_text_from_pdf applied to bounded documents.      *)
(***************************************************************************)
EXTENDS Integers, Sequences, FiniteSets, TLC

\* ------------------------------------------------------------------ bounds
MaxLines == 2
MaxFiles == 3
MaxPages == 3
MaxPad == 1
MaxThreads == 2

\* ------------------------------------------------------- Python/JSON values
\* One shape for every value so that any two values can be compared:
\* t is the Python type, s/n/l/d carry the str/int/list/dict content.
EmptyDict == [k \in {} |-> 0]

None == [t |-> "null", s |-> "", n |-> 0, l |-> <<>>, d |-> EmptyDict]

Str(x) == [t |-> "str", s |-> x, n |-> 0, l |-> <<>>, d |-> EmptyDict]

Num(x) == [t |-> "num", s |-> "", n |-> x, l |-> <<>>, d |-> EmptyDict]

List(x) == [t |-> "list", s |-> "", n |-> 0, l |-> x, d |-> EmptyDict]

Dict(x) == [t |-> "dict", s |-> "", n |-> 0, l |-> <<>>, d |-> x]

\* Python truthiness, as used by (if invoice_json) and (if not invoice_data.get("lines")).
Truthy(v) ==
    CASE v.t = "null" -> FALSE
      [] v.t = "str"  -> v.s # ""
      [] v.t = "num"  -> v.n # 0
      [] v.t = "list" -> v.l # <<>>
      [] v.t = "dict" -> DOMAIN v.d # {}

\* dict.get(key): the value, or None when the key is absent.
Get(v, key) == IF key \in DOMAIN v.d THEN v.d[key] ELSE None

\* --------------------------------------------------------- the CSV header
XERO_CSV_HEADER ==
    << "*ContactName", "*InvoiceNumber", "*InvoiceDate", "*DueDate",
       "InventoryItemCode", "*Description", "*Quantity", "*UnitAmount",
       "Discount", "*AccountCode", "*TaxType", "TrackingName1",
       "TrackingOption1", "TrackingName2", "TrackingOption2", "Currency" >>

HeaderKeys == {XERO_CSV_HEADER[i] : i \in DOMAIN XERO_CSV_HEADER}

\* ------------------------------------------- flatten_json_to_xero_rows
\* row_dict of one line: every header key defaults to "", then the
\* invoice-level fields, the line fields and the two Xero defaults are set.
RowDictSwapped(invoice_data, line) ==
    [key \in HeaderKeys |->
        CASE key = "*ContactName"   -> Get(invoice_data, "contact_name")
          [] key = "*InvoiceNumber" -> Get(invoice_data, "invoice_number")
          [] key = "*InvoiceDate"   -> Get(invoice_data, "invoice_date")
          [] key = "*DueDate"       -> Get(invoice_data, "due_date")
          [] key = "*Description"   -> Get(line, "description")
          [] key = "*Quantity"      -> Get(line, "unit_price")
          [] key = "*UnitAmount"    -> Get(line, "quantity")
          [] key = "*AccountCode"   -> Str("200")
          [] key = "*TaxType"       -> Str("GST on Income")
          [] OTHER                  -> Str("")]

RowDict(invoice_data, line) ==
    [key \in HeaderKeys |->
        CASE key = "*ContactName"   -> Get(invoice_data, "contact_name")
          [] key = "*InvoiceNumber" -> Get(invoice_data, "invoice_number")
          [] key = "*InvoiceDate"   -> Get(invoice_data, "invoice_date")
          [] key = "*DueDate"       -> Get(invoice_data, "due_date")
          [] key = "*Description"   -> Get(line, "description")
          [] key = "*Quantity"      -> Get(line, "quantity")
          [] key = "*UnitAmount"    -> Get(line, "unit_price")
          [] key = "*AccountCode"   -> Str("200")
          [] key = "*TaxType"       -> Str("GST on Income")
          [] OTHER                  -> Str("")]

\* [row_dict[key] for key in XERO_CSV_HEADER]
XeroRow(invoice_data, line) ==
    [i \in DOMAIN XERO_CSV_HEADER |-> RowDict(invoice_data, line)[XERO_CSV_HEADER[i]]]

\* The result of the call: the rows returned, or raised = TRUE when the
\* call ends in an exception (.get on a value that is no dict, iteration
\* over a value that is no list), in which case nothing is returned.
FlattenResult(raised, rows) == [raised |-> raised, rows |-> rows]

FlattenDropLast(invoice_data) ==
    LET lines == Get(invoice_data, "lines") IN
    IF invoice_data.t # "dict" THEN FlattenResult(TRUE, <<>>)
    ELSE IF ~Truthy(lines) THEN FlattenResult(FALSE, <<>>)
    ELSE FlattenResult(FALSE,
            [i \in 1..(Len(lines.l) - 1) |-> XeroRow(invoice_data, lines.l[i])])

flatten_json_to_xero_rows(invoice_data) ==
    LET lines == Get(invoice_data, "lines") IN
    IF invoice_data.t # "dict" THEN FlattenResult(TRUE, <<>>)
    ELSE IF ~Truthy(lines) THEN FlattenResult(FALSE, <<>>)
    ELSE IF lines.t # "list" THEN FlattenResult(TRUE, <<>>)
    ELSE IF \E i \in 1..Len(lines.l) : lines.l[i].t # "dict"
         THEN FlattenResult(TRUE, <<>>)
    ELSE FlattenResult(FALSE,
            [i \in 1..Len(lines.l) |-> XeroRow(invoice_data, lines.l[i])])

\* ------------------------------------------------------------------ text
\* A str is a sequence of characters, each a one-character string; the
\* backquote, which no TLA+ string can hold, is the value BQ.
BQ == "BACKQUOTE"

FENCE_JSON == <<BQ, BQ, BQ, "j", "s", "o", "n">>

FENCE == <<BQ, BQ, BQ>>

Whitespace == {" ", "\n", "\t", "\r"}

\* str.startswith(prefix)
StartsWith(text, prefix) ==
    /\ Len(text) >= Len(prefix)
    /\ SubSeq(text, 1, Len(prefix)) = prefix

EndsWith(text, suffix) ==
    /\ Len(text) >= Len(suffix)
    /\ SubSeq(text, Len(text) - Len(suffix) + 1, Len(text)) = suffix

Min(a, b) == IF a < b THEN a ELSE b

Max(a, b) == IF a > b THEN a ELSE b

\* text[start:-back] with the clamping Python applies of both indices.
PySlice(text, start, back) ==
    LET lo == Min(start, Len(text))
        hi == Max(Len(text) - back, 0)
    IN IF lo < hi THEN SubSeq(text, lo + 1, hi) ELSE <<>>

RECURSIVE LStrip(_)
LStrip(text) ==
    IF text # <<>> /\ Head(text) \in Whitespace THEN LStrip(Tail(text)) ELSE text

RECURSIVE RStrip(_)
RStrip(text) ==
    IF text # <<>> /\ text[Len(text)] \in Whitespace
    THEN RStrip(SubSeq(text, 1, Len(text) - 1))
    ELSE text

\* str.strip()
Strip(text) == LStrip(RStrip(text))

\* ---------------------------------------------------- query_llm: the repair
\* if raw_response.startswith(FENCE_JSON): raw_response = raw_response[7:-3].strip()
RepairKeepsFence(raw_response) ==
    IF StartsWith(raw_response, FENCE_JSON)
    THEN Strip(PySlice(raw_response, 7, 0))
    ELSE raw_response

RepairResponse(raw_response) ==
    IF StartsWith(raw_response, FENCE_JSON)
    THEN Strip(PySlice(raw_response, 7, 3))
    ELSE raw_response

\* The JSON texts the model knows, with the value json.loads gives each.
TEXT_EMPTY_DICT == <<"{", "}">>

TEXT_NO_LINES == <<"{", "\"", "l", "i", "n", "e", "s", "\"", ":", "[", "]", "}">>

TEXT_ONE_LINE ==
    <<"{", "\"", "l", "i", "n", "e", "s", "\"", ":", "[", "{", "}", "]", "}">>

TEXT_TWO_LINES ==
    <<"{", "\"", "l", "i", "n", "e", "s", "\"", ":", "[", "{", "\"", "q", "u",
      "a", "n", "t", "i", "t", "y", "\"", ":", "1", "}", ",", "{", "}", "]", "}">>

TEXT_LIST == <<"[", "1", "]">>

TEXT_CHATTY == <<"S", "u", "r", "e">>

JsonTexts ==
    {TEXT_EMPTY_DICT, TEXT_NO_LINES, TEXT_ONE_LINE, TEXT_TWO_LINES, TEXT_LIST}

JsonValue(text) ==
    CASE text = TEXT_EMPTY_DICT -> Dict(EmptyDict)
      [] text = TEXT_NO_LINES   -> Dict([k \in {"lines"} |-> List(<<>>)])
      [] text = TEXT_ONE_LINE   -> Dict([k \in {"lines"} |-> List(<<Dict(EmptyDict)>>)])
      [] text = TEXT_TWO_LINES  ->
            Dict([k \in {"lines"} |->
                    List(<<Dict([q \in {"quantity"} |-> Num(1)]), Dict(EmptyDict)>>)])
      [] text = TEXT_LIST       -> List(<<Num(1)>>)

\* json.loads: whitespace around the text is ignored; a text that is no
\* JSON raises JSONDecodeError.
ParseResult(raised, value) == [raised |-> raised, value |-> value]

json_loads(text) ==
    IF Strip(text) \in JsonTexts
    THEN ParseResult(FALSE, JsonValue(Strip(text)))
    ELSE ParseResult(TRUE, None)

\* ------------------------------------------------- extract_text_from_pdf
\* A document: whether fitz.open succeeds, and its pages; a page either
\* yields its text or makes get_text raise.
Page(raises, text) == [raises |-> raises, text |-> text]

Document(openable, pages) == [openable |-> openable, pages |-> pages]

\* for page in doc: text += page.get_text()
RECURSIVE ReadPages(_, _, _)
ReadPages(pages, i, text) ==
    IF i > Len(pages) THEN [raised |-> FALSE, text |-> text]
    ELSE IF pages[i].raises THEN [raised |-> TRUE, text |-> text]
    ELSE ReadPages(pages, i + 1, text \o pages[i].text)

\* The outcome of the call: exc is "none" on return, "open" when fitz.open
\* raised, "page" when a get_text raised; handle is the state of the
\* document handle when the call ends.
ReaderResult(exc, text, handle) == [exc |-> exc, text |-> text, handle |-> handle]

extract_text_from_pdf(doc) ==
    IF ~doc.openable THEN ReaderResult("open", <<>>, "none")
    ELSE LET r == ReadPages(doc.pages, 1, <<>>) IN
         IF r.raised THEN ReaderResult("page", <<>>, "open")
         ELSE ReaderResult("none", r.text, "closed")

\* ------------------------------------------------------------- query_llm
\* What the endpoint does with one request: the connection fails, it
\* answers with a non-success status, or it answers with a text content.
Response(kind, content) == [kind |-> kind, content |-> content]

QueryResult(exc, value) == [exc |-> exc, value |-> value]

\* requests.post raises ConnectionError; raise_for_status raises HTTPError;
\* json.loads of the repaired content raises JSONDecodeError.
query_llm(text, response) ==
    IF response.kind = "ConnectionError" THEN QueryResult("ConnectionError", None)
    ELSE IF response.kind = "HTTPError" THEN QueryResult("HTTPError", None)
    ELSE LET parsed == json_loads(RepairResponse(response.content)) IN
         IF parsed.raised THEN QueryResult("JSONDecodeError", None)
         ELSE QueryResult("none", parsed.value)

\* ------------------------------------------- process_files: one document
\* The try block of one loop iteration: exc is the exception that leaves
\* it ("none" when it completes), rows what the document adds, sent
\* whether the model was queried.
TryResult(exc, rows, sent) == [exc |-> exc, rows |-> rows, sent |-> sent]

TryDocument(doc, response) ==
    LET read == extract_text_from_pdf(doc) IN
    IF read.exc # "none" THEN TryResult("FitzError", <<>>, FALSE)
    ELSE LET answer == query_llm(read.text, response) IN
         IF answer.exc # "none" THEN TryResult(answer.exc, <<>>, TRUE)
         ELSE IF ~Truthy(answer.value) THEN TryResult("none", <<>>, TRUE)
         ELSE LET flat == flatten_json_to_xero_rows(answer.value) IN
              IF flat.raised THEN TryResult("AttributeError", <<>>, TRUE)
              ELSE TryResult("none", flat.rows, TRUE)

\* except requests.exceptions.ConnectionError: ... return
NothingIsFatal(exc) == FALSE

IsBatchFatal(exc) == exc = "ConnectionError"

\* all_csv_rows.extend(csv_rows_for_this_invoice)
ExtendInFront(all_rows, rows) == rows \o all_rows

Extend(all_rows, rows) == all_rows \o rows

\* The status text the except clauses leave for one iteration.
STATUS_PROCESSING == "Processing file"

STATUS_CONNECT == "ERROR: Could not connect to LM Studio. Is it running?"

STATUS_INVALID_JSON == "ERROR: LLM returned invalid JSON"

STATUS_EXCEPTION == "ERROR: exception"

STATUS_NO_DATA == "Processing complete, but no invoice data was extracted."

STATUS_SAVE_FAILED == "ERROR: Could not save CSV file."

STATUS_CANCELLED == "Save cancelled."

STATUS_SAVED == "Success! CSV saved"

IterationStatus(exc) ==
    CASE exc = "none"            -> STATUS_PROCESSING
      [] exc = "ConnectionError" -> STATUS_CONNECT
      [] exc = "JSONDecodeError" -> STATUS_INVALID_JSON
      [] OTHER                   -> STATUS_EXCEPTION

\* ---------------------------------------------------------------- save_csv
\* csv.writer renders None as the empty text and a number by str().
CsvCell(v) ==
    CASE v.t = "null" -> ""
      [] v.t = "str"  -> v.s
      [] v.t = "num"  -> ToString(v.n)
      [] OTHER        -> "repr"

CsvLine(row) == [i \in DOMAIN row |-> CsvCell(row[i])]

\* writer.writerow(XERO_CSV_HEADER); writer.writerows(all_rows)
CsvWithoutHeader(all_rows) == [i \in DOMAIN all_rows |-> CsvLine(all_rows[i])]

CsvContent(all_rows) ==
    <<XERO_CSV_HEADER>> \o [i \in DOMAIN all_rows |-> CsvLine(all_rows[i])]

\* The file at the chosen save path: absent, or present with its lines.
CsvFile(present, lines) == [present |-> present, lines |-> lines]

NoFile == CsvFile(FALSE, <<>>)

\* ------------------------------------------------------------- variables
VARIABLES
    pdf_file_paths,       \* self.pdf_file_paths: the selected documents
    process_button,       \* self.process_button: its state and text
    select_files_button,  \* self.select_files_button: its state
    status_label,         \* self.status_label: its text
    pc,                   \* per worker thread: where process_files stands
    files,                \* per worker thread: the sequence the loop iterates
    idx,                  \* per worker thread: documents iterated so far
    all_csv_rows,         \* per worker thread: the local all_csv_rows
    log,                  \* per worker thread: the documents attempted, each
                          \* with what the endpoint answered (history)
    csv_out,              \* per worker thread: the file its save_csv wrote
    arg,                  \* the argument of the helper under study
    ret,                  \* what the helper returned
    called                \* whether the helper has been applied

appVars == <<pdf_file_paths, process_button, select_files_button, status_label,
             pc, files, idx, all_csv_rows, log, csv_out>>

helperVars == <<arg, ret, called>>

vars == <<appVars, helperVars>>

Threads == 1..MaxThreads

\* __init__: no file selected, the process button disabled.
BUTTON_TEXT == "2. Process and Save CSV"

InitApp ==
    /\ pdf_file_paths = <<>>
    /\ process_button = [state |-> "disabled", text |-> BUTTON_TEXT]
    /\ select_files_button = "normal"
    /\ status_label = "Welcome! Select PDF files to begin."
    /\ pc = [w \in Threads |-> "idle"]
    /\ files = [w \in Threads |-> <<>>]
    /\ idx = [w \in Threads |-> 0]
    /\ all_csv_rows = [w \in Threads |-> <<>>]
    /\ log = [w \in Threads |-> <<>>]
    /\ csv_out = [w \in Threads |-> NoFile]

\* ------------------------------------------------------------ SpecFlatten
\* Bounded invoice records: each header field absent, null or a string;
\* lines absent, null, or a list of at most MaxLines line items.
LineItems ==
    { Dict([k \in {"description", "quantity", "unit_price"} |->
              CASE k = "description" -> Str("Widget")
                [] k = "quantity"    -> Num(2)
                [] k = "unit_price"  -> Num(10)]),
      Dict([k \in {"description", "quantity"} |->
              IF k = "description" THEN None ELSE Num(1)]),
      Dict(EmptyDict) }

SeqsUpTo(S, n) == UNION {[1..m -> S] : m \in 0..n}

LinesValues == {None} \cup {List(l) : l \in SeqsUpTo(LineItems, MaxLines)}

HeaderChoices ==
    [contact_name   : {"absent", "null", "Acme"},
     invoice_number : {"null", "INV-1"},
     invoice_date   : {"null", "2024-01-05"},
     due_date       : {"absent", "2024-02-05"}]

FieldValue(c) == IF c = "null" THEN None ELSE Str(c)

InvoiceDict(h, hasLines, lines) ==
    LET hk == {k \in {"contact_name", "invoice_number", "invoice_date", "due_date"} :
                  h[k] # "absent"}
        keys == hk \cup (IF hasLines THEN {"lines"} ELSE {})
    IN Dict([k \in keys |-> IF k = "lines" THEN lines ELSE FieldValue(h[k])])

InvoiceRecords ==
    {InvoiceDict(h, TRUE, l) : h \in HeaderChoices, l \in LinesValues}
    \cup {InvoiceDict(h, FALSE, None) : h \in HeaderChoices}

NoResult == FlattenResult(FALSE, <<>>)

InitFlatten ==
    /\ InitApp
    /\ arg \in InvoiceRecords
    /\ ret = NoResult
    /\ called = FALSE

CallFlatten ==
    /\ ~called
    /\ ret' = flatten_json_to_xero_rows(arg)
    /\ called' = TRUE
    /\ UNCHANGED <<arg, appVars>>

NextFlatten == CallFlatten

SpecFlatten == InitFlatten /\ [][NextFlatten]_vars

\* The line items of a record: none when lines is absent, null or empty.
LinesOf(rec) == IF Truthy(Get(rec, "lines")) THEN Get(rec, "lines").l ELSE <<>>

\* C5: for every invoice record with k line items (absent, null or empty
\* lines being k = 0, without an exception), flatten returns exactly k
\* rows, in line order, each of 16 cells, all carrying the record's four
\* header values.
C5_FlattenOneRowPerLine ==
    called =>
        /\ ~ret.raised
        /\ Len(ret.rows) = Len(LinesOf(arg))
        /\ \A i \in 1..Len(ret.rows) :
              /\ Len(ret.rows[i]) = 16
              /\ ret.rows[i][6] = Get(LinesOf(arg)[i], "description")
              /\ ret.rows[i][7] = Get(LinesOf(arg)[i], "quantity")
              /\ \A j \in 1..Len(ret.rows) : \A c \in 1..4 :
                    ret.rows[i][c] = ret.rows[j][c]

C5_Witness ==
    /\ called
    /\ Len(LinesOf(arg)) = 2
    /\ Len(ret.rows) = 2
    /\ ret.rows[1][6] # ret.rows[2][6]
    /\ ret.rows[1][1] = Str("Acme")

\* C6: every row flatten produces has the fixed 16-column layout: columns
\* 1-4 the record's contact, invoice number, invoice date and due date,
\* columns 6-8 the line's description, quantity and unit price, column 10
\* the literal 200, column 11 the literal GST on Income, and columns 5, 9
\* and 12-16 empty cells.
C6_FixedColumnLayout ==
    called =>
        \A i \in 1..Len(ret.rows) :
            LET row == ret.rows[i]
                line == LinesOf(arg)[i]
            IN /\ DOMAIN row = 1..16
               /\ row[1] = Get(arg, "contact_name")
               /\ row[2] = Get(arg, "invoice_number")
               /\ row[3] = Get(arg, "invoice_date")
               /\ row[4] = Get(arg, "due_date")
               /\ row[6] = Get(line, "description")
               /\ row[7] = Get(line, "quantity")
               /\ row[8] = Get(line, "unit_price")
               /\ row[10] = Str("200")
               /\ row[11] = Str("GST on Income")
               /\ \A c \in {5, 9, 12, 13, 14, 15, 16} : row[c] = Str("")

\* The end-to-end example of the specification: Acme, INV-1, one Widget line.
C6_Witness ==
    /\ called
    /\ Len(ret.rows) >= 1
    /\ ret.rows[1] = << Str("Acme"), Str("INV-1"), Str("2024-01-05"),
                        Str("2024-02-05"), Str(""), Str("Widget"), Num(2),
                        Num(10), Str(""), Str("200"), Str("GST on Income"),
                        Str(""), Str(""), Str(""), Str(""), Str("") >>

\* ------------------------------------------------------------- SpecRepair
\* Bounded payloads: a leading part, a body and a trailing part, with up to
\* MaxPad line breaks between them.
Pads == UNION {[1..m -> {"\n"}] : m \in 0..MaxPad}

Leads == {<<>>, FENCE_JSON, FENCE, <<" ">> \o FENCE_JSON}

Trails == {<<>>, FENCE, FENCE \o <<"\n">>, <<BQ, BQ>>}

Bodies == JsonTexts \cup {TEXT_CHATTY, <<>>}

Payloads ==
    {l \o p \o b \o q \o t : l \in Leads, p \in Pads, b \in Bodies, q \in Pads, t \in Trails}

RepairOutcome(text) == [text |-> text, parsed |-> json_loads(text)]

InitRepair ==
    /\ InitApp
    /\ arg \in Payloads
    /\ ret = RepairOutcome(<<>>)
    /\ called = FALSE

CallRepair ==
    /\ ~called
    /\ ret' = RepairOutcome(RepairResponse(arg))
    /\ called' = TRUE
    /\ UNCHANGED <<arg, appVars>>

NextRepair == CallRepair

SpecRepair == InitRepair /\ [][NextRepair]_vars

\* What lies between the leading and the trailing fence marker of a payload.
Unwrapped(payload) == SubSeq(payload, Len(FENCE_JSON) + 1, Len(payload) - Len(FENCE))

\* The payload consists of a JSON text between the two fence markers.
IsFencedJson(payload) ==
    /\ Len(payload) >= Len(FENCE_JSON) + Len(FENCE)
    /\ StartsWith(payload, FENCE_JSON)
    /\ EndsWith(payload, FENCE)
    /\ ~json_loads(Unwrapped(payload)).raised

PageTexts == {<<"a">>, <<"b">>}

Pages == {Page(FALSE, t) : t \in PageTexts} \cup {Page(TRUE, <<>>)}

Documents ==
    {Document(o, p) : o \in BOOLEAN, p \in SeqsUpTo(Pages, MaxPages)}

InitReader ==
    /\ InitApp
    /\ arg \in Documents
    /\ ret = ReaderResult("none", <<>>, "none")
    /\ called = FALSE

CallReader ==
    /\ ~called
    /\ ret' = extract_text_from_pdf(arg)
    /\ called' = TRUE
    /\ UNCHANGED <<arg, appVars>>

NextReader == CallReader

SpecReader == InitReader /\ [][NextReader]_vars

\* C9: when extract_text_from_pdf ends, by return or by exception, no
\* document handle is left open.
C9_HandleClosedOnEveryExit == called => ret.handle # "open"

\* ------------------------------------------------------- the application
\* select_files: the dialog returns the chosen documents, none on cancel.
SelectFiles(docs) ==
    /\ select_files_button = "normal"
    /\ \E chosen \in SeqsUpTo(docs, MaxFiles) :
          /\ pdf_file_paths' = chosen
          /\ IF chosen # <<>>
             THEN /\ status_label' = "file(s) selected."
                  /\ process_button' = [process_button EXCEPT !.state = "normal"]
             ELSE /\ status_label' = "No files selected."
                  /\ process_button' = [process_button EXCEPT !.state = "disabled"]
    /\ UNCHANGED <<select_files_button, pc, files, idx, all_csv_rows, log, csv_out,
                   helperVars>>

\* start_processing_thread: a click on the enabled process button; the new
\* thread takes the first free slot of pool (the bound on live threads).
StartProcessingThread(pool) ==
    /\ process_button.state = "normal"
    /\ \E w \in pool :
          /\ pc[w] = "idle"
          /\ \A v \in pool : pc[v] = "idle" => w <= v
          /\ pc' = [pc EXCEPT ![w] = "begin"]
    /\ process_button' = [state |-> "disabled", text |-> "Processing..."]
    /\ select_files_button' = "disabled"
    /\ UNCHANGED <<pdf_file_paths, status_label, files, idx, all_csv_rows, log,
                   csv_out, helperVars>>

\* process_files, lines 124-127: the empty accumulator, and the loop takes
\* the sequence self.pdf_file_paths holds at that moment.
Begin(w) ==
    /\ pc[w] = "begin"
    /\ files' = [files EXCEPT ![w] = pdf_file_paths]
    /\ idx' = [idx EXCEPT ![w] = 0]
    /\ all_csv_rows' = [all_csv_rows EXCEPT ![w] = <<>>]
    /\ log' = [log EXCEPT ![w] = <<>>]
    /\ csv_out' = [csv_out EXCEPT ![w] = NoFile]
    /\ pc' = [pc EXCEPT ![w] = "loop"]
    /\ UNCHANGED <<pdf_file_paths, process_button, select_files_button,
                   status_label, helperVars>>

NotSent == Response("not sent", <<>>)

LogEntry(doc, response) == [doc |-> doc, response |-> response]

\* process_files, lines 127-150: one iteration of the loop, the endpoint
\* answering with any of responses.
ProcessDocument(w, responses) ==
    /\ pc[w] = "loop"
    /\ idx[w] < Len(files[w])
    /\ \E response \in responses :
          LET doc == files[w][idx[w] + 1]
              try == TryDocument(doc, response)
          IN /\ log' = [log EXCEPT ![w] =
                    Append(@, LogEntry(doc, IF try.sent THEN response ELSE NotSent))]
             /\ idx' = [idx EXCEPT ![w] = @ + 1]
             /\ all_csv_rows' = [all_csv_rows EXCEPT ![w] = Extend(@, try.rows)]
             /\ status_label' = IterationStatus(try.exc)
             /\ pc' = [pc EXCEPT ![w] = IF IsBatchFatal(try.exc) THEN "reset_ui" ELSE "loop"]
    /\ UNCHANGED <<pdf_file_paths, process_button, select_files_button, files,
                   csv_out, helperVars>>

\* process_files, lines 152-155: after the loop, nothing to save.
\* An empty accumulator ends the run with the no-data status.
LeaveLoop(w) ==
    /\ pc[w] = "loop"
    /\ idx[w] = Len(files[w])
    /\ IF all_csv_rows[w] = <<>>
       THEN /\ status_label' = STATUS_NO_DATA
            /\ pc' = [pc EXCEPT ![w] = "reset_ui"]
       ELSE /\ status_label' = status_label
            /\ pc' = [pc EXCEPT ![w] = "save_csv"]
    /\ UNCHANGED <<pdf_file_paths, process_button, select_files_button, files, idx,
                   all_csv_rows, log, csv_out, helperVars>>

\* process_files, lines 158-161, with save_csv: the save dialog is
\* cancelled, the file is written, open() raises, or a write raises and
\* leaves the file with some first lines.
SaveCsv(w) ==
    /\ pc[w] = "save_csv"
    /\ \/ /\ status_label' = STATUS_CANCELLED
          /\ UNCHANGED csv_out
       \/ /\ csv_out' = [csv_out EXCEPT ![w] = CsvFile(TRUE, CsvContent(all_csv_rows[w]))]
          /\ status_label' = STATUS_SAVED
       \/ /\ status_label' = STATUS_SAVE_FAILED
          /\ UNCHANGED csv_out
       \/ /\ \E k \in 0..(Len(CsvContent(all_csv_rows[w])) - 1) :
                csv_out' = [csv_out EXCEPT ![w] =
                    CsvFile(TRUE, SubSeq(CsvContent(all_csv_rows[w]), 1, k))]
          /\ status_label' = STATUS_SAVE_FAILED
    /\ pc' = [pc EXCEPT ![w] = "reset_ui"]
    /\ UNCHANGED <<pdf_file_paths, process_button, select_files_button, files, idx,
                   all_csv_rows, log, helperVars>>

\* reset_ui, line 167. process_files reads none of its locals from here
\* on: they are dropped at this step.
ResetProcessButton(w) ==
    /\ pc[w] = "reset_ui"
    /\ process_button' = [state |-> "normal", text |-> BUTTON_TEXT]
    /\ pc' = [pc EXCEPT ![w] = "reset_select"]
    /\ files' = [files EXCEPT ![w] = <<>>]
    /\ idx' = [idx EXCEPT ![w] = 0]
    /\ all_csv_rows' = [all_csv_rows EXCEPT ![w] = <<>>]
    /\ log' = [log EXCEPT ![w] = <<>>]
    /\ csv_out' = [csv_out EXCEPT ![w] = NoFile]
    /\ UNCHANGED <<pdf_file_paths, select_files_button, status_label, helperVars>>

\* reset_ui, line 168
ResetSelectButton(w) ==
    /\ pc[w] = "reset_select"
    /\ select_files_button' = "normal"
    /\ pc' = [pc EXCEPT ![w] = "reset_paths"]
    /\ UNCHANGED <<pdf_file_paths, process_button, status_label, files, idx,
                   all_csv_rows, log, csv_out, helperVars>>

\* reset_ui, line 169, and the end of the thread.
ClearPaths(w) ==
    /\ pc[w] = "reset_paths"
    /\ pdf_file_paths' = <<>>
    /\ pc' = [pc EXCEPT ![w] = "idle"]
    /\ UNCHANGED <<process_button, select_files_button, status_label, files, idx,
                   all_csv_rows, log, csv_out, helperVars>>

\* The documents and the responses of the endpoint.
GoodDoc == Document(TRUE, <<Page(FALSE, <<"a">>)>>)

UnopenableDoc == Document(FALSE, <<>>)

BrokenPageDoc == Document(TRUE, <<Page(TRUE, <<>>)>>)

FENCED_ONE_LINE == FENCE_JSON \o <<"\n">> \o TEXT_ONE_LINE \o <<"\n">> \o FENCE

AllDocs == {GoodDoc, UnopenableDoc, BrokenPageDoc}

AllResponses ==
    {Response("ConnectionError", <<>>), Response("HTTPError", <<>>)}
    \cup {Response("ok", c) :
            c \in {TEXT_NO_LINES, TEXT_TWO_LINES, FENCED_ONE_LINE, TEXT_CHATTY, TEXT_LIST}}

FewDocs == {GoodDoc}

FewResponses == {Response("ConnectionError", <<>>), Response("ok", TEXT_ONE_LINE)}

InitHelper ==
    /\ arg = None
    /\ ret = None
    /\ called = FALSE

Init == InitApp /\ InitHelper

Worker(w, responses) ==
    \/ Begin(w)
    \/ ProcessDocument(w, responses)
    \/ LeaveLoop(w)
    \/ SaveCsv(w)
    \/ ResetProcessButton(w)
    \/ ResetSelectButton(w)
    \/ ClearPaths(w)

\* One worker thread slot, every document and response.
OneThread == {1}

Next ==
    \/ SelectFiles(AllDocs)
    \/ StartProcessingThread(OneThread)
    \/ \E w \in OneThread : Worker(w, AllResponses)

Spec == Init /\ [][Next]_vars

\* MaxThreads worker thread slots, one kind of document and two responses.
NextUI ==
    \/ SelectFiles(FewDocs)
    \/ StartProcessingThread(Threads)
    \/ \E w \in Threads : Worker(w, FewResponses)

SpecUI == Init /\ [][NextUI]_vars

\* ------------------------------------------------------ claims on a run
\* The exception that ended the try block of a logged document, and the
\* rows the document yields.
Exc(entry) == TryDocument(entry.doc, entry.response).exc

RowsOf(entry) == TryDocument(entry.doc, entry.response).rows

\* The rows of the logged documents that succeeded, in log order.
RECURSIVE ExpectedRows(_)
ExpectedRows(entries) ==
    IF entries = <<>> THEN <<>>
    ELSE ExpectedRows(SubSeq(entries, 1, Len(entries) - 1))
            \o (IF Exc(entries[Len(entries)]) = "none"
                THEN RowsOf(entries[Len(entries)]) ELSE <<>>)

\* The run of thread w has ended: process_files is about to call reset_ui.
Ended(w) == pc[w] = "reset_ui"

\* The log is the documents of the file list, in input order.
LogFollowsFiles(w) ==
    /\ Len(log[w]) <= Len(files[w])
    /\ \A k \in 1..Len(log[w]) : log[w][k].doc = files[w][k]

Aborted(w, exc) == \E k \in 1..Len(log[w]) : Exc(log[w][k]) = exc

\* C1: when the extraction of document di fails with a connection failure,
\* the run stops at once: di is the last document attempted, no later
\* document is read or sent, and the accumulator holds exactly the rows of
\* the documents before di.
C1_ConnectionFailureStopsRun ==
    \A w \in Threads : \A k \in 1..Len(log[w]) :
        Exc(log[w][k]) = "ConnectionError" =>
            /\ k = Len(log[w])
            /\ idx[w] = k
            /\ Ended(w)
            /\ LogFollowsFiles(w)
            /\ all_csv_rows[w] = ExpectedRows(SubSeq(log[w], 1, k - 1))

C1_Witness ==
    /\ Ended(1)
    /\ Len(files[1]) = 3
    /\ Len(log[1]) = 2
    /\ Exc(log[1][2]) = "ConnectionError"
    /\ Len(all_csv_rows[1]) = 2

\* C2: a non-success HTTP status for document di is batch-fatal like an
\* unreachable endpoint: di is the last document attempted and the run ends.
C2_HttpStatusStopsRun ==
    \A w \in Threads : \A k \in 1..Len(log[w]) :
        Exc(log[w][k]) = "HTTPError" =>
            /\ k = Len(log[w])
            /\ Ended(w)

\* C3: a per-document failure does not halt the batch: a run that no
\* connection failure aborted has attempted every document of the file
\* list, and the accumulator is always the concatenation, in document
\* order and then line order, of the rows of the documents that succeeded,
\* a failed document adding none.
C3_FailedDocumentIsSkipped ==
    \A w \in Threads :
        /\ LogFollowsFiles(w)
        /\ all_csv_rows[w] = ExpectedRows(log[w])
        /\ pc[w] = "loop" => idx[w] = Len(log[w])
        /\ (pc[w] = "save_csv" \/ (Ended(w) /\ ~Aborted(w, "ConnectionError")))
              => Len(log[w]) = Len(files[w])

C3_Witness ==
    /\ Ended(1)
    /\ Len(log[1]) = 3
    /\ Exc(log[1][1]) = "none" /\ Len(RowsOf(log[1][1])) = 2
    /\ Exc(log[1][2]) = "JSONDecodeError"
    /\ Exc(log[1][3]) = "none" /\ Len(RowsOf(log[1][3])) = 1
    /\ Len(all_csv_rows[1]) = 3
    /\ all_csv_rows[1][3] # all_csv_rows[1][1]

\* The three end states of a run.
AbortedByTransport(w) == Aborted(w, "ConnectionError")

SomeFailedOthersSucceeded(w) ==
    /\ ~AbortedByTransport(w)
    /\ \E k \in 1..Len(log[w]) : Exc(log[w][k]) # "none"
    /\ \E k \in 1..Len(log[w]) : Exc(log[w][k]) = "none"

AllSucceededNoLines(w) ==
    /\ \A k \in 1..Len(log[w]) : Exc(log[w][k]) = "none"
    /\ all_csv_rows[w] = <<>>

\* C4: the status a run ends with tells the three end states apart: an
\* aborted run ends with the connection status, a run whose documents all
\* succeeded without any line item ends with the no-data status, and a run
\* in which some documents failed and others succeeded ends with neither.
C4_EndStatesDistinct ==
    \A w \in Threads :
        Ended(w) =>
            /\ AbortedByTransport(w) => status_label = STATUS_CONNECT
            /\ AllSucceededNoLines(w) => status_label = STATUS_NO_DATA
            /\ SomeFailedOthersSucceeded(w) =>
                  status_label \notin {STATUS_CONNECT, STATUS_NO_DATA}

\* The original C8: a run that went through every document and yields no
\* row still writes a file, holding the header row alone; and a written
\* file is the header row followed by the accumulated rows.
C8_ZeroRowsStillWritten ==
    \A w \in Threads :
        Ended(w) =>
            /\ (all_csv_rows[w] = <<>> /\ ~AbortedByTransport(w))
                  => csv_out[w] = CsvFile(TRUE, <<XERO_CSV_HEADER>>)
            /\ status_label = STATUS_SAVED
                  => csv_out[w] = CsvFile(TRUE, CsvContent(all_csv_rows[w]))

\* C8, amended: a run that yields no row writes no file and ends with the
\* no-data status (or the connection status); every file written holds the
\* header row first, followed by the accumulated rows in accumulator
\* order, all of them when save_csv completes.
C8_WrittenFileIsHeaderThenRows ==
    \A w \in Threads :
        Ended(w) =>
            /\ all_csv_rows[w] = <<>> =>
                  /\ csv_out[w] = NoFile
                  /\ status_label \in {STATUS_NO_DATA, STATUS_CONNECT}
            /\ csv_out[w].present =>
                  /\ Len(csv_out[w].lines) <= Len(all_csv_rows[w]) + 1
                  /\ \A i \in 1..Len(csv_out[w].lines) :
                        csv_out[w].lines[i] =
                            IF i = 1 THEN XERO_CSV_HEADER
                            ELSE CsvLine(all_csv_rows[w][i - 1])
            /\ status_label = STATUS_SAVED =>
                  /\ csv_out[w].present
                  /\ Len(csv_out[w].lines) = Len(all_csv_rows[w]) + 1

C8_Witness ==
    /\ Ended(1)
    /\ status_label = STATUS_SAVED
    /\ Len(all_csv_rows[1]) = 3
    /\ Len(csv_out[1].lines) = 4
    /\ csv_out[1].lines[2][7] = "1"
    /\ csv_out[1].lines[3][7] = ""

\* C10: while a worker thread has not finished, both buttons are disabled
\* and no other worker thread is running.
C10_OneRunAtATime ==
    \A w \in Threads :
        pc[w] # "idle" =>
            /\ process_button.state = "disabled"
            /\ select_files_button = "disabled"
            /\ \A v \in Threads \ {w} : pc[v] = "idle"
====
